---- MODULE Spec2Model ----
(***************************************************************************)
(* Hyperphonic: the playback / view-mode controller of src/src/App.tsx.   *)
(*                                                                         *)
(* Every React event handler is one action: the handler's state updates,   *)
(* the re-render they cause (which rebinds the <video> element's src) and  *)
(* the effects that run after the commit happen in one step.  The browser  *)
(* (media element, Fullscreen API, AudioContext) is the environment: its    *)
(* asynchronous answers are actions of their own.                          *)
(***************************************************************************)
EXTENDS Integers, Sequences, FiniteSets, TLC

\* ---------------------------------------------------------------- bounds
MaxIds == 2             \* tracks ever created in one run
MaxBatch == 2           \* files in one picker / drop batch
MaxPendingToggles == 1  \* togglePlay calls waiting for audioContext.resume()
MaxFsPending == 2       \* Fullscreen API calls the browser has not answered yet
MaxDuration == 10       \* seconds of the longest file

\* ---------------------------------------------------------------- state
VARIABLES
    tracks,             \* useState<Track[]>: sequence of [id, type]; id stands for the blob url too
    currentTrackIndex,  \* useState<number>, 0-based, -1 = none
    isPlaying,          \* useState(false)
    nextId,             \* ids handed out so far + 1 (Math.random ids taken as fresh)
    liveURLs,           \* blob urls created by URL.createObjectURL and not revoked
    revokedURLs,        \* blob urls passed to URL.revokeObjectURL
    media,              \* the <video> element behind mediaRef: [attr, res, state]
    ctxState,           \* audioContextRef.current.state
    pendingToggles,     \* togglePlay calls suspended at `await resume()`, with their closures
    isFullscreen,       \* useState(false)
    isVideoOnly,        \* useState(false)
    showControls,       \* useState(true)
    showPlaylist,       \* useState(true)
    osFullscreen,       \* !!document.fullscreenElement
    fsQueue,            \* requestFullscreen()/exitFullscreen() calls not yet answered
    controlsTimers,     \* pending setTimeout callbacks of handleMouseMove
    volume,             \* useState(0.7), in hundredths
    isMuted,            \* useState(false)
    volumeIndicator,    \* useState({value: 0.7, visible: false}), value in hundredths
    volumeTimer,        \* volumeTimeoutRef holds a timeout that has not fired
    currentTime,        \* useState(0), seconds
    duration,           \* useState(0), seconds
    viz,                \* the Visualizer's canvas and its frame loop
    audioContexts,      \* AudioContexts (with analyser and source node) created so far
    cinemaToggles,      \* history: cinema toggles since a clean start from Normal
    last                \* history: the handler that ran last, what it saw and what it called

playVars == <<tracks, currentTrackIndex, isPlaying, nextId, liveURLs, revokedURLs,
              media, ctxState, pendingToggles>>
viewVars == <<isFullscreen, isVideoOnly, showControls, showPlaylist, osFullscreen,
              fsQueue, controlsTimers, cinemaToggles>>
soundVars == <<volume, isMuted, volumeIndicator, volumeTimer>>
timeVars == <<currentTime, duration>>
vars == <<tracks, currentTrackIndex, isPlaying, nextId, liveURLs, revokedURLs,
          media, ctxState, pendingToggles, isFullscreen, isVideoOnly, showControls,
          showPlaylist, osFullscreen, fsQueue, controlsTimers, volume, isMuted,
          volumeIndicator, volumeTimer, currentTime, duration, audioContexts,
          viz, cinemaToggles, last>>

\* ---------------------------------------------------------------- tracks
\* A file's declared media type, as <<top-level type, subtype>>.
MimeTypes == {<<"audio", "mpeg">>, <<"video", "mp4">>, <<"text", "plain">>}

RECURSIVE SeqsUpTo(_, _)
SeqsUpTo(S, n) ==
    IF n = 0 THEN {<<>>}
    ELSE LET shorter == SeqsUpTo(S, n - 1)
         IN  shorter \cup {Append(s, x) : s \in {t \in shorter : Len(t) = n - 1}, x \in S}

\* e.target.files / e.dataTransfer.files
Batches == SeqsUpTo(MimeTypes, MaxBatch)

\* file.type.startsWith('audio/') || file.type.startsWith('video/')
Accepted(mime) == mime[1] = "audio" \/ mime[1] = "video"

\* file.type.startsWith('video/') ? 'video' : 'audio'
TrackType(mime) == IF mime[1] = "video" THEN "video" ELSE "audio"

\* Array.from(files).filter(...).map(...): one Track per accepted file, in input order
NewTracks(files, firstId) ==
    LET accepted == SelectSeq(files, Accepted)
    IN  [i \in 1..Len(accepted) |-> [id |-> firstId + i - 1, type |-> TrackType(accepted[i])]]

NoTrack == [id |-> 0, type |-> "none"]

\* currentTrackIndex >= 0 ? tracks[currentTrackIndex] : null  (undefined past the end)
CurrentTrack(tr, idx) == IF idx >= 0 /\ idx < Len(tr) THEN tr[idx + 1] ELSE NoTrack

\* tracks.findIndex(t => t.id === id)
FindIndex(tr, id) ==
    IF \E i \in 1..Len(tr) : tr[i].id = id
    THEN (CHOOSE i \in 1..Len(tr) : tr[i].id = id /\ \A j \in 1..(i - 1) : tr[j].id # id) - 1
    ELSE -1

\* prev.filter(t => t.id !== id)
WithoutId(tr, id) == SelectSeq(tr, LAMBDA t : t.id # id)

\* JavaScript's % (the sign follows the dividend)
JsRem(a, n) == IF a >= 0 THEN a % n ELSE -((-a) % n)

\* ---------------------------------------------------------------- media element
\* attr: the src attribute React last wrote (0 = none); res: the resource the
\* element has loaded (0 = none); state: what the element is doing with it;
\* vol: element.volume in hundredths; time: element.currentTime in seconds;
\* meta: the resource's metadata is loaded; tu: a timeupdate event is queued;
\* node: the audio graph's MediaElementAudioSourceNode was created from this element.
InitialVolume == 70
DefaultVolume == 100    \* HTMLMediaElement.volume of a fresh element: 1.0

\* the element after mount: the effect on [volume, isMuted] has set its volume
EmptyMedia == [attr |-> 0, res |-> 0, state |-> "paused", vol |-> InitialVolume,
               time |-> 0, meta |-> FALSE, tu |-> FALSE, node |-> TRUE]

\* a <video> element mounted by a switch of the JSX branch
NewElement(id) == [attr |-> id, res |-> id, state |-> "paused", vol |-> DefaultVolume,
                   time |-> 0, meta |-> FALSE, tu |-> FALSE, node |-> FALSE]

\* the same element given another src: the load algorithm resets the position and
\* queues a timeupdate when the position was not 0
Load(m, id) == [m EXCEPT !.attr = id, !.res = id, !.state = "paused", !.time = 0,
                         !.meta = FALSE, !.tu = (m.meta /\ m.time # 0)]

\* the JSX branch that holds the <video> element: currentTrack?.type === 'video'
Branch(t) == IF t.type = "video" THEN "video" ELSE "audio"

\* HTMLMediaElement.play(): nothing to play without a resource; a failed resource stays failed
ElPlay(m) == IF m.res = 0 \/ m.state = "error" THEN m ELSE [m EXCEPT !.state = "playing"]

\* HTMLMediaElement.pause()
ElPause(m) == IF m.state = "playing" THEN [m EXCEPT !.state = "paused"] ELSE m

PlayCall(m) == [cmd |-> "play", res |-> m.res]
PauseCall(m) == [cmd |-> "pause", res |-> m.res]

\* The commit of a render and the effect on [currentTrackIndex].  m and calls are the
\* element and the transport calls as the handler itself left them.
Render(tr, idx, playing, m, calls) ==
    LET new == CurrentTrack(tr, idx)
        old == CurrentTrack(tracks, currentTrackIndex)
        m1  == IF Branch(new) # Branch(old) THEN NewElement(new.id)
               ELSE IF new.id = m.attr THEN m
               ELSE IF new.id = 0 THEN [m EXCEPT !.attr = 0]
               ELSE Load(m, new.id)
        runs == idx # currentTrackIndex /\ new.id # 0 /\ playing
    IN  [media |-> IF runs THEN ElPlay(m1) ELSE m1,
         calls |-> IF runs THEN Append(calls, PlayCall(m1)) ELSE calls]

\* ---------------------------------------------------------------- history
NoView == [mode |-> "-", controls |-> FALSE, videoOnly |-> FALSE]
NoClosure == [isPlaying |-> FALSE, idx |-> -1]

\* what a playback handler read from its render: isPlaying and currentTrackIndex
Closure == [isPlaying |-> isPlaying, idx |-> currentTrackIndex]

\* id: the id of the track that was active when the handler started;
\* num: 1 when isPlaying was true when the handler (or the rest of it) started
PlayLast(op, arg, c, calls) ==
    [op |-> op, arg |-> arg, c |-> c, v |-> NoView, media |-> calls, os |-> <<>>,
     id |-> CurrentTrack(tracks, currentTrackIndex).id,
     num |-> IF isPlaying THEN 1 ELSE 0]

\* the transport calls of the handler that ran last
IssuedPlay == \E i \in 1..Len(last.media) : last.media[i].cmd = "play"
IssuedPause == \E i \in 1..Len(last.media) : last.media[i].cmd = "pause"

\* ---------------------------------------------------------------- visualizer
\* mounted: the audio branch, which holds the Visualizer, is rendered; running: the
\* isPlaying prop of its last effect run; pending: requestAnimationFrame callbacks
\* not yet run; canvas: what the canvas shows; event, clears: what the last commit
\* did to the loop and how often it called clearRect outside draw.
InitViz == [mounted |-> TRUE, running |-> FALSE, pending |-> 0, canvas |-> "clear",
            event |-> "mount", clears |-> 0]

CancelFrameNot(p) == p

\* cancelAnimationFrame(animationRef.current): the request made last
CancelFrame(p) == IF p > 0 THEN p - 1 ELSE 0

\* The Visualizer after a commit of App: unmounted with the audio branch, mounted
\* afresh with it, and its effect on [analyser, isPlaying] run again (cleanup, then
\* draw() or clearRect) when the prop isPlaying && type === 'audio' has changed.
\* The analyser is handed over by the first re-render; the prop is false until then.
VizRender(tr, idx, playing) ==
    LET new == CurrentTrack(tr, idx)
        prop == playing /\ new.type = "audio"
    IN  IF Branch(new) # "audio"
        THEN IF viz.mounted
             THEN [mounted |-> FALSE, running |-> FALSE,
                   pending |-> CancelFrame(viz.pending), canvas |-> "clear",
                   event |-> "unmount", clears |-> 0]
             ELSE [viz EXCEPT !.event = "none", !.clears = 0]
        ELSE IF ~viz.mounted
        THEN IF prop
             THEN [mounted |-> TRUE, running |-> TRUE, pending |-> viz.pending + 1,
                   canvas |-> "painted", event |-> "start", clears |-> 0]
             ELSE [mounted |-> TRUE, running |-> FALSE, pending |-> viz.pending,
                   canvas |-> "clear", event |-> "mount", clears |-> 1]
        ELSE IF prop = viz.running
        THEN [viz EXCEPT !.event = "none", !.clears = 0]
        ELSE IF prop
        THEN [viz EXCEPT !.running = TRUE, !.pending = CancelFrame(viz.pending) + 1,
                         !.canvas = "painted", !.event = "start", !.clears = 0]
        ELSE [viz EXCEPT !.running = FALSE, !.pending = CancelFrame(viz.pending),
                         !.canvas = "clear", !.event = "stop", !.clears = 1]

\* setTracks / setCurrentTrackIndex / setIsPlaying, then the commit and its effects
Commit(tr, idx, playing, m, calls, op, arg, c) ==
    LET r == Render(tr, idx, playing, m, calls)
    IN  /\ tracks' = tr
        /\ viz' = VizRender(tr, idx, playing)
        /\ currentTrackIndex' = idx
        /\ isPlaying' = playing
        /\ media' = r.media
        /\ last' = PlayLast(op, arg, c, r.calls)

\* the playlist panel is rendered: showPlaylist && !isVideoOnly && !isFullscreen
PlaylistShown == showPlaylist /\ ~isVideoOnly /\ ~isFullscreen

\* ---------------------------------------------------------------- ingestion
\* handleFileChange: the index is set whenever none is selected, whatever was accepted
FileChangeIndex(newTracks) == IF currentTrackIndex = -1 THEN 0 ELSE currentTrackIndex

HandleFileChange(files) ==
    LET newTracks == NewTracks(files, nextId)
    IN  /\ PlaylistShown
        /\ nextId + Len(newTracks) <= MaxIds + 1
        /\ nextId' = nextId + Len(newTracks)
        /\ liveURLs' = liveURLs \cup {newTracks[i].id : i \in 1..Len(newTracks)}
        /\ Commit(tracks \o newTracks, FileChangeIndex(newTracks), isPlaying, media, <<>>,
                  "handleFileChange", Len(newTracks), Closure)
        /\ UNCHANGED <<revokedURLs, ctxState, pendingToggles>>
        /\ UNCHANGED <<viewVars, soundVars, timeVars, audioContexts>>

\* handleDrop: nothing at all happens unless a file was accepted
DropIndex(newTracks) ==
    IF Len(newTracks) > 0 /\ currentTrackIndex = -1 THEN 0 ELSE currentTrackIndex

HandleDrop(files) ==
    LET newTracks == NewTracks(files, nextId)
    IN  /\ nextId + Len(newTracks) <= MaxIds + 1
        /\ nextId' = nextId + Len(newTracks)
        /\ liveURLs' = liveURLs \cup {newTracks[i].id : i \in 1..Len(newTracks)}
        /\ Commit(tracks \o newTracks, DropIndex(newTracks), isPlaying, media, <<>>,
                  "handleDrop", Len(newTracks), Closure)
        /\ UNCHANGED <<revokedURLs, ctxState, pendingToggles>>
        /\ UNCHANGED <<viewVars, soundVars, timeVars, audioContexts>>

\* ---------------------------------------------------------------- removal
RemoveTrackStaysPlaying(id) ==
    LET index == FindIndex(tracks, id)
    IN  [playing |-> isPlaying,
         idx |-> IF index = currentTrackIndex THEN -1
                 ELSE IF index < currentTrackIndex THEN currentTrackIndex - 1
                 ELSE currentTrackIndex]

\* removeTrack's updates of isPlaying and currentTrackIndex
RemoveTrackUpdate(id) ==
    LET index == FindIndex(tracks, id)
    IN  [playing |-> IF index = currentTrackIndex THEN FALSE ELSE isPlaying,
         idx |-> IF index = currentTrackIndex THEN -1
                 ELSE IF index < currentTrackIndex THEN currentTrackIndex - 1
                 ELSE currentTrackIndex]

\* the blob urls removeTrack revokes: it makes no URL.revokeObjectURL call
RemoveTrackRevokes(id) == {}

\* removeTrack(id, e)
RemoveTrackCall(id) ==
    LET u == RemoveTrackUpdate(id)
    IN  /\ revokedURLs' = revokedURLs \cup RemoveTrackRevokes(id)
        /\ liveURLs' = liveURLs \ RemoveTrackRevokes(id)
        /\ Commit(WithoutId(tracks, id), u.idx, u.playing, media, <<>>,
                  "removeTrack", FindIndex(tracks, id), Closure)
        /\ UNCHANGED <<nextId, ctxState, pendingToggles>>
        /\ UNCHANGED <<viewVars, soundVars, timeVars, audioContexts>>

\* the trash button of a playlist row: id is the id of a track in the list
RemoveTrack(id) ==
    /\ PlaylistShown
    /\ \E i \in 1..Len(tracks) : tracks[i].id = id
    /\ RemoveTrackCall(id)

\* removeTrack called with an id that no track of the list has (no button does this)
RemoveUnlisted(id) ==
    /\ \A i \in 1..Len(tracks) : tracks[i].id # id
    /\ RemoveTrackCall(id)

\* ---------------------------------------------------------------- selection
\* the onClick of a playlist row
SelectTrack(index) ==
    /\ PlaylistShown
    /\ index \in 0..(Len(tracks) - 1)
    /\ Commit(tracks, index, TRUE, media, <<>>, "selectTrack", index, Closure)
    /\ UNCHANGED <<nextId, liveURLs, revokedURLs, ctxState, pendingToggles>>
    /\ UNCHANGED <<viewVars, soundVars, timeVars, audioContexts>>

\* nextTrack's new index
NextIndex == IF Len(tracks) = 0 THEN currentTrackIndex
             ELSE JsRem(currentTrackIndex + 1, Len(tracks))

\* prevTrack's new index
PrevIndex == IF Len(tracks) = 0 THEN currentTrackIndex
             ELSE JsRem(currentTrackIndex - 1 + Len(tracks), Len(tracks))

\* the skip-forward button (rendered with the controls)
NextTrack ==
    /\ showControls
    /\ Commit(tracks, NextIndex, isPlaying, media, <<>>, "nextTrack", 0, Closure)
    /\ UNCHANGED <<nextId, liveURLs, revokedURLs, ctxState, pendingToggles>>
    /\ UNCHANGED <<viewVars, soundVars, timeVars, audioContexts>>

\* the skip-back button (rendered with the controls)
PrevTrack ==
    /\ showControls
    /\ Commit(tracks, PrevIndex, isPlaying, media, <<>>, "prevTrack", 0, Closure)
    /\ UNCHANGED <<nextId, liveURLs, revokedURLs, ctxState, pendingToggles>>
    /\ UNCHANGED <<viewVars, soundVars, timeVars, audioContexts>>

\* ---------------------------------------------------------------- togglePlay
\* togglePlay after its guard and its await: c holds the isPlaying and
\* currentTrackIndex of the render the callback was created in
TogglePlayBody(c) ==
    [idx |-> IF ~c.isPlaying /\ c.idx = -1 THEN 0 ELSE currentTrackIndex,
     playing |-> ~c.isPlaying,
     media |-> IF c.isPlaying THEN ElPause(media) ELSE ElPlay(media),
     calls |-> IF c.isPlaying THEN <<PauseCall(media)>> ELSE <<PlayCall(media)>>]

\* Space, the play button, a click on the video: ends at the guard, suspends at the
\* await, or runs through
TogglePlay ==
    /\ UNCHANGED <<nextId, liveURLs, revokedURLs, ctxState>>
    /\ UNCHANGED <<viewVars, soundVars, timeVars, audioContexts>>
    /\ IF Len(tracks) = 0
       THEN /\ last' = PlayLast("togglePlayNoTracks", 0, Closure, <<>>)
            /\ UNCHANGED <<tracks, currentTrackIndex, isPlaying, media, pendingToggles,
                           viz>>
       ELSE IF ctxState = "suspended"
       THEN /\ Len(pendingToggles) < MaxPendingToggles
            /\ pendingToggles' = Append(pendingToggles, Closure)
            /\ last' = PlayLast("togglePlayAwait", 0, Closure, <<>>)
            /\ UNCHANGED <<tracks, currentTrackIndex, isPlaying, media, viz>>
       ELSE LET b == TogglePlayBody(Closure)
            IN  /\ Commit(tracks, b.idx, b.playing, b.media, b.calls,
                          "togglePlay", 0, Closure)
                /\ UNCHANGED pendingToggles

\* audioContext.resume() resolved: the oldest suspended togglePlay continues
ResumeResolved ==
    /\ pendingToggles # <<>>
    /\ ctxState' = "running"
    /\ pendingToggles' = Tail(pendingToggles)
    /\ LET c == Head(pendingToggles)
           b == TogglePlayBody(c)
       IN  Commit(tracks, b.idx, b.playing, b.media, b.calls, "togglePlay", 1, c)
    /\ UNCHANGED <<nextId, liveURLs, revokedURLs>>
    /\ UNCHANGED <<viewVars, soundVars, timeVars, audioContexts>>

\* whether a rejection of resume() is caught: the await stands in no try block and
\* no caller of togglePlay attaches a catch
ResumeRejectionCaught == FALSE

\* audioContext.resume() rejected: the rest of that togglePlay never runs; arg = 1
\* when the rejection leaves togglePlay as an unhandled rejection
ResumeRejected ==
    /\ pendingToggles # <<>>
    /\ pendingToggles' = Tail(pendingToggles)
    /\ last' = PlayLast("resumeRejected", IF ResumeRejectionCaught THEN 0 ELSE 1,
                        Closure, <<>>)
    /\ UNCHANGED <<tracks, currentTrackIndex, isPlaying, nextId, liveURLs, revokedURLs,
                   media, ctxState>>
    /\ UNCHANGED <<viewVars, soundVars, timeVars, audioContexts, viz>>

\* ---------------------------------------------------------------- media events
\* the element reaches the end of its resource: onEnded={nextTrack}
MediaEnded ==
    /\ media.state = "playing"
    /\ Commit(tracks, NextIndex, isPlaying, [media EXCEPT !.state = "ended"], <<>>,
              "onEnded", 0, Closure)
    /\ UNCHANGED <<nextId, liveURLs, revokedURLs, ctxState, pendingToggles>>
    /\ UNCHANGED <<viewVars, soundVars, timeVars, audioContexts>>

\* play() rejected (.catch(console.error)): blocked, or the resource cannot be played;
\* arg = 1 when the play() was issued by the togglePlay that ran just before
PlayRejected ==
    /\ media.state = "playing"
    /\ \E s \in {"paused", "error"} : media' = [media EXCEPT !.state = s]
    /\ last' = PlayLast("playRejected",
                        IF last.op = "togglePlay" /\ IssuedPlay THEN 1 ELSE 0,
                        Closure, <<>>)
    /\ UNCHANGED <<tracks, currentTrackIndex, isPlaying, nextId, liveURLs, revokedURLs,
                   ctxState, pendingToggles>>
    /\ UNCHANGED <<viewVars, soundVars, timeVars, audioContexts, viz>>

\* a requestAnimationFrame callback runs draw: it requests the next frame and paints
AnimationFrame ==
    /\ viz.pending > 0
    /\ viz' = [viz EXCEPT !.pending = (viz.pending - 1) + 1, !.canvas = "painted",
                          !.event = "frame", !.clears = 0]
    /\ last' = PlayLast("animationFrame", 0, Closure, <<>>)
    /\ UNCHANGED <<playVars, viewVars, soundVars, timeVars, audioContexts>>

\* ---------------------------------------------------------------- audio graph
\* The effect that builds the audio graph, run once more after the mount (React
\* re-runs mount effects of a component it remounts with its refs kept): it builds a
\* context, analyser and source node only while audioContextRef.current is null.
SetupAudioGraph ==
    /\ last.op = "mount"
    /\ audioContexts' = IF audioContexts = 0 THEN 1 ELSE audioContexts
    /\ media' = IF audioContexts = 0 THEN [media EXCEPT !.node = TRUE] ELSE media
    /\ last' = PlayLast("setupAudioGraph", 0, Closure, <<>>)
    /\ UNCHANGED <<tracks, currentTrackIndex, isPlaying, nextId, liveURLs,
                   revokedURLs, ctxState, pendingToggles, viz>>
    /\ UNCHANGED <<viewVars, soundVars, timeVars>>

\* ---------------------------------------------------------------- volume
\* Volumes are counted in hundredths: 1.0 is 100, the key / wheel step 0.05 is 5.
FullVolume == 100
VolumeStep == 5

\* values the volume slider (min 0, max 1, step 0.01) is dragged to
SliderVolumes == {0, 3, FullVolume}

MathMin(a, b) == IF a < b THEN a ELSE b
MathMax(a, b) == IF a > b THEN a ELSE b

AdjustedVolumeUnclamped(prev, delta) == prev + delta

\* newVal = Math.min(1, Math.max(0, prev + delta))
AdjustedVolume(prev, delta) == MathMin(FullVolume, MathMax(0, prev + delta))

\* useEffect on [volume, isMuted]: runs after a commit that changed one of them
VolumeEffect(m, vol, muted) ==
    IF vol # volume \/ muted # isMuted
    THEN [m EXCEPT !.vol = IF muted THEN 0 ELSE vol]
    ELSE m

\* num: the volume, or the element's position, when the handler started
NumLast(op, arg, num) ==
    [op |-> op, arg |-> arg, c |-> Closure, v |-> NoView, media |-> <<>>, os |-> <<>>,
     id |-> CurrentTrack(tracks, currentTrackIndex).id, num |-> num]

\* adjustVolume(delta): ArrowUp / ArrowDown and the wheel; showVolumeOverlay(newVal)
\* replaces the pending timeout
AdjustVolume(delta) ==
    LET newVal == AdjustedVolume(volume, delta)
    IN  /\ volume' = newVal
        /\ isMuted' = FALSE
        /\ volumeIndicator' = [value |-> newVal, visible |-> TRUE]
        /\ volumeTimer' = TRUE
        /\ media' = VolumeEffect(media, newVal, FALSE)
        /\ last' = NumLast("adjustVolume", delta, volume)
        /\ UNCHANGED <<tracks, currentTrackIndex, isPlaying, nextId, liveURLs,
                       revokedURLs, ctxState, pendingToggles>>
        /\ UNCHANGED <<viewVars, timeVars, audioContexts, viz>>

\* the volume slider: onChange={(e) => setVolume(parseFloat(e.target.value))}
SetVolume(v) ==
    /\ showControls
    /\ v # volume
    /\ volume' = v
    /\ media' = VolumeEffect(media, v, isMuted)
    /\ last' = NumLast("setVolume", v, volume)
    /\ UNCHANGED <<tracks, currentTrackIndex, isPlaying, nextId, liveURLs,
                   revokedURLs, ctxState, pendingToggles>>
    /\ UNCHANGED <<isMuted, volumeIndicator, volumeTimer>>
    /\ UNCHANGED <<viewVars, timeVars, audioContexts, viz>>

\* the mute button: onClick={() => setIsMuted(!isMuted)}; arg = 1 when it was muted
ToggleMute ==
    /\ showControls
    /\ isMuted' = ~isMuted
    /\ media' = VolumeEffect(media, volume, ~isMuted)
    /\ last' = NumLast("toggleMute", IF isMuted THEN 1 ELSE 0, volume)
    /\ UNCHANGED <<tracks, currentTrackIndex, isPlaying, nextId, liveURLs,
                   revokedURLs, ctxState, pendingToggles>>
    /\ UNCHANGED <<volume, volumeIndicator, volumeTimer>>
    /\ UNCHANGED <<viewVars, timeVars, audioContexts, viz>>

\* the timeout of showVolumeOverlay fires, 1000 ms after it was armed; arg = 1 when
\* the volume is no longer the one the timeout was armed with
VolumeTimeout ==
    /\ volumeTimer
    /\ volumeTimer' = FALSE
    /\ volumeIndicator' = [volumeIndicator EXCEPT !.visible = FALSE]
    /\ last' = NumLast("volumeTimeout",
                       IF volumeIndicator.value # volume THEN 1 ELSE 0, volume)
    /\ UNCHANGED <<playVars, viewVars, timeVars, audioContexts, viz>>
    /\ UNCHANGED <<volume, isMuted>>

\* ---------------------------------------------------------------- position
\* Times are whole seconds.  ArrowRight / ArrowLeft seek by 5 s.
SeekStep == 5

\* the length of a file: odd ids are long files, even ids short ones
TrackDuration(id) == IF id % 2 = 1 THEN MaxDuration ELSE SeekStep

\* positions the progress slider (min 0, max duration || 0) is dragged to
SliderTimes == {t \in {0, SeekStep, MaxDuration} : t <= duration}

\* element.currentTime = t for t >= 0: with metadata the element seeks, bounded by its
\* resource's length, and queues a timeupdate; without, t is kept as the start position
SetTime(m, t) ==
    IF m.meta
    THEN [m EXCEPT !.time = MathMin(t, TrackDuration(m.res)), !.tu = TRUE]
    ELSE [m EXCEPT !.time = t]

\* seek(delta): ArrowLeft / ArrowRight
Seek(delta) ==
    /\ media' = SetTime(media, MathMin(duration, MathMax(0, media.time + delta)))
    /\ last' = NumLast("seek", delta, media.time)
    /\ UNCHANGED <<tracks, currentTrackIndex, isPlaying, nextId, liveURLs,
                   revokedURLs, ctxState, pendingToggles>>
    /\ UNCHANGED <<viewVars, soundVars, timeVars, audioContexts, viz>>

\* the progress slider's onChange
SeekTo(t) ==
    /\ showControls
    /\ t # currentTime
    /\ currentTime' = t
    /\ media' = SetTime(media, t)
    /\ last' = NumLast("seekTo", t, media.time)
    /\ UNCHANGED <<tracks, currentTrackIndex, isPlaying, nextId, liveURLs,
                   revokedURLs, ctxState, pendingToggles>>
    /\ UNCHANGED <<viewVars, soundVars, duration, audioContexts, viz>>

\* the element has read its resource's metadata: onLoadedMetadata
LoadedMetadata ==
    LET d == TrackDuration(media.res)
    IN  /\ media.res # 0
        /\ ~media.meta
        /\ media.state # "error"
        /\ media' = [media EXCEPT !.meta = TRUE, !.time = MathMin(media.time, d),
                                  !.tu = (media.time # 0)]
        /\ duration' = d
        /\ last' = NumLast("onLoadedMetadata", 0, media.time)
        /\ UNCHANGED <<tracks, currentTrackIndex, isPlaying, nextId, liveURLs,
                       revokedURLs, ctxState, pendingToggles>>
        /\ UNCHANGED <<viewVars, soundVars, currentTime, audioContexts, viz>>

\* the element reports its position, moved on by playback or by a seek: onTimeUpdate
TimeUpdate ==
    /\ media.meta
    /\ media.state = "playing" \/ media.tu
    /\ \E t \in {media.time} \cup
                 (IF media.state = "playing"
                  THEN {MathMin(media.time + SeekStep, TrackDuration(media.res))}
                  ELSE {}) :
          /\ media' = [media EXCEPT !.time = t, !.tu = FALSE]
          /\ currentTime' = t
    /\ last' = NumLast("onTimeUpdate", 0, media.time)
    /\ UNCHANGED <<tracks, currentTrackIndex, isPlaying, nextId, liveURLs,
                   revokedURLs, ctxState, pendingToggles>>
    /\ UNCHANGED <<viewVars, soundVars, duration, audioContexts, viz>>

\* ---------------------------------------------------------------- view mode
\* The view-mode tag the rendering derives from the two flags: isVideoOnly is
\* cinema, isFullscreen && !isVideoOnly is app fullscreen.
ModeOf(fs, vo) == IF vo THEN "Cinema" ELSE IF fs THEN "Fullscreen" ELSE "Normal"
Mode == ModeOf(isFullscreen, isVideoOnly)

View == [mode |-> Mode, controls |-> showControls, videoOnly |-> isVideoOnly]

ViewLast(op, v, os) ==
    [op |-> op, arg |-> 0, c |-> NoClosure, v |-> v, media |-> <<>>, os |-> os,
     id |-> 0, num |-> 0]

\* a Fullscreen API call in flight, with the view it was made from
FsCall(cmd) == [cmd |-> cmd, from |-> View]

\* toggleFullscreen: Enter, or the maximize button
ToggleFullscreen ==
    /\ Len(fsQueue) < MaxFsPending
    /\ IF ~osFullscreen
       THEN /\ fsQueue' = Append(fsQueue, FsCall("request"))
            /\ isFullscreen' = TRUE
            /\ isVideoOnly' = FALSE
            /\ showControls' = FALSE
            /\ last' = ViewLast("toggleFullscreen", View, <<"request">>)
       ELSE /\ fsQueue' = Append(fsQueue, FsCall("exit"))
            /\ isFullscreen' = FALSE
            /\ last' = ViewLast("toggleFullscreen", View, <<"exit">>)
            /\ UNCHANGED <<isVideoOnly, showControls>>
    /\ cinemaToggles' = 0
    /\ UNCHANGED <<showPlaylist, osFullscreen, controlsTimers>>
    /\ UNCHANGED <<playVars, soundVars, timeVars, audioContexts, viz>>

\* toggleVideoOnly: F, or the cinema button
ToggleVideoOnly ==
    /\ IF ~osFullscreen
       THEN /\ Len(fsQueue) < MaxFsPending
            /\ fsQueue' = Append(fsQueue, FsCall("request"))
            /\ isVideoOnly' = TRUE
            /\ isFullscreen' = TRUE
            /\ showControls' = FALSE
            /\ last' = ViewLast("toggleVideoOnly", View, <<"request">>)
       ELSE IF isVideoOnly
       THEN /\ Len(fsQueue) < MaxFsPending
            /\ fsQueue' = Append(fsQueue, FsCall("exit"))
            /\ isVideoOnly' = FALSE
            /\ isFullscreen' = FALSE
            /\ last' = ViewLast("toggleVideoOnly", View, <<"exit">>)
            /\ UNCHANGED showControls
       ELSE /\ isVideoOnly' = TRUE
            /\ showControls' = FALSE
            /\ last' = ViewLast("toggleVideoOnly", View, <<>>)
            /\ UNCHANGED <<isFullscreen, fsQueue>>
    /\ cinemaToggles' = IF Mode = "Normal" /\ ~osFullscreen /\ fsQueue = <<>> THEN 1
                        ELSE IF cinemaToggles = 1 THEN 2
                        ELSE 0
    /\ UNCHANGED <<showPlaylist, osFullscreen, controlsTimers>>
    /\ UNCHANGED <<playVars, soundVars, timeVars, audioContexts, viz>>

\* the playlist button (rendered with the controls)
TogglePlaylist ==
    /\ showControls
    /\ showPlaylist' = ~showPlaylist
    /\ last' = ViewLast("togglePlaylist", View, <<>>)
    /\ UNCHANGED <<isFullscreen, isVideoOnly, showControls, osFullscreen, fsQueue,
                   controlsTimers, cinemaToggles>>
    /\ UNCHANGED <<playVars, soundVars, timeVars, audioContexts, viz>>

\* handleMouseMove: outside Normal it replaces the pending timeout by a new one
HandleMouseMove ==
    /\ showControls' = TRUE
    /\ controlsTimers' = IF ~isVideoOnly /\ ~isFullscreen THEN controlsTimers
                         ELSE (IF controlsTimers > 0 THEN controlsTimers - 1 ELSE 0) + 1
    /\ last' = ViewLast("handleMouseMove", View, <<>>)
    /\ UNCHANGED <<isFullscreen, isVideoOnly, showPlaylist, osFullscreen, fsQueue,
                   cinemaToggles>>
    /\ UNCHANGED <<playVars, soundVars, timeVars, audioContexts, viz>>

\* the 2000 ms timeout of handleMouseMove fires
ControlsTimeout ==
    /\ controlsTimers > 0
    /\ controlsTimers' = controlsTimers - 1
    /\ showControls' = FALSE
    /\ last' = ViewLast("controlsTimeout", View, <<>>)
    /\ UNCHANGED <<isFullscreen, isVideoOnly, showPlaylist, osFullscreen, fsQueue,
                   cinemaToggles>>
    /\ UNCHANGED <<playVars, soundVars, timeVars, audioContexts, viz>>

HandleFullscreenChangeKeepsCinema(now) ==
    [fs |-> now, vo |-> isVideoOnly]

\* handleFullscreenChange: now is !!document.fullscreenElement
HandleFullscreenChange(now) ==
    [fs |-> now, vo |-> IF ~now THEN FALSE ELSE isVideoOnly]

\* the browser changes document.fullscreenElement and dispatches fullscreenchange
FullscreenChanged(now, queue, toggles) ==
    LET h == HandleFullscreenChange(now)
    IN  /\ osFullscreen' = now
        /\ fsQueue' = queue
        /\ isFullscreen' = h.fs
        /\ isVideoOnly' = h.vo
        /\ cinemaToggles' = toggles
        /\ last' = ViewLast("fullscreenchange", View, <<>>)
        /\ UNCHANGED <<showControls, showPlaylist, controlsTimers>>
        /\ UNCHANGED <<playVars, soundVars, timeVars, audioContexts, viz>>

\* the browser answers a call without changing document.fullscreenElement:
\* no fullscreenchange event, the promise's .catch(console.error) at most
FullscreenAnswered(op, toggles) ==
    /\ fsQueue' = Tail(fsQueue)
    /\ cinemaToggles' = toggles
    /\ last' = ViewLast(op, Head(fsQueue).from, <<>>)
    /\ UNCHANGED <<isFullscreen, isVideoOnly, showControls, showPlaylist, osFullscreen,
                   controlsTimers>>
    /\ UNCHANGED <<playVars, soundVars, timeVars, audioContexts, viz>>

\* the browser grants the oldest requestFullscreen()
FullscreenGranted ==
    /\ fsQueue # <<>>
    /\ Head(fsQueue).cmd = "request"
    /\ IF osFullscreen
       THEN FullscreenAnswered("fullscreenAlready", cinemaToggles)
       ELSE FullscreenChanged(TRUE, Tail(fsQueue), cinemaToggles)

\* the browser denies the oldest requestFullscreen()
FullscreenDenied ==
    /\ fsQueue # <<>>
    /\ Head(fsQueue).cmd = "request"
    /\ FullscreenAnswered("fullscreenDenied", 0)

\* the browser carries out the oldest exitFullscreen()
FullscreenExited ==
    /\ fsQueue # <<>>
    /\ Head(fsQueue).cmd = "exit"
    /\ IF osFullscreen
       THEN FullscreenChanged(FALSE, Tail(fsQueue), cinemaToggles)
       ELSE FullscreenAnswered("exitRejected", cinemaToggles)

\* the user leaves fullscreen with the platform's own key (Escape)
UserEscape ==
    /\ osFullscreen
    /\ FullscreenChanged(FALSE, fsQueue, 0)

\* ---------------------------------------------------------------- specifications
InitPlay ==
    /\ tracks = <<>>
    /\ currentTrackIndex = -1
    /\ isPlaying = FALSE
    /\ nextId = 1
    /\ liveURLs = {}
    /\ revokedURLs = {}
    /\ media = EmptyMedia
    /\ ctxState \in {"suspended", "running"}
    /\ pendingToggles = <<>>

InitView ==
    /\ isFullscreen = FALSE
    /\ isVideoOnly = FALSE
    /\ showControls = TRUE
    /\ showPlaylist = TRUE
    /\ osFullscreen = FALSE
    /\ fsQueue = <<>>
    /\ controlsTimers = 0
    /\ cinemaToggles = 0

InitSound ==
    /\ volume = InitialVolume
    /\ isMuted = FALSE
    /\ volumeIndicator = [value |-> InitialVolume, visible |-> FALSE]
    /\ volumeTimer = FALSE

InitTime ==
    /\ currentTime = 0
    /\ duration = 0

\* the mount effect has built the audio graph on the element of the first render
InitGraph == audioContexts = 1

Init ==
    /\ InitPlay
    /\ InitView
    /\ InitSound
    /\ InitTime
    /\ InitGraph
    /\ viz = InitViz
    /\ last = ViewLast("mount", NoView, <<>>)

NextPlay ==
    \/ \E files \in Batches : HandleFileChange(files)
    \/ \E files \in Batches : HandleDrop(files)
    \/ \E id \in 1..MaxIds : RemoveTrack(id)
    \/ \E index \in 0..(MaxIds - 1) : SelectTrack(index)
    \/ NextTrack
    \/ PrevTrack
    \/ TogglePlay
    \/ ResumeResolved
    \/ ResumeRejected
    \/ MediaEnded
    \/ PlayRejected

NextView ==
    \/ ToggleFullscreen
    \/ ToggleVideoOnly
    \/ TogglePlaylist
    \/ HandleMouseMove
    \/ ControlsTimeout
    \/ FullscreenGranted
    \/ FullscreenDenied
    \/ FullscreenExited
    \/ UserEscape

Next == NextPlay \/ NextView

\* the whole controller
Spec == Init /\ [][Next]_vars

\* the playback controller and track registry, the view left as mounted
SpecPlay == Init /\ [][NextPlay]_vars

\* the view-mode state machine, the playlist left empty
SpecView == Init /\ [][NextView]_vars

\* the track registry with removeTrack open to any id, listed or not
NextRegistry ==
    \/ NextPlay
    \/ \E id \in 1..MaxIds : RemoveUnlisted(id)

SpecRegistry == Init /\ [][NextRegistry]_vars

\* volume, mute and the overlay, with tracks dropped
NextSound ==
    \/ \E delta \in {-VolumeStep, VolumeStep} : AdjustVolume(delta)
    \/ \E v \in SliderVolumes : SetVolume(v)
    \/ ToggleMute
    \/ VolumeTimeout
    \/ \E files \in Batches : HandleDrop(files)

SpecSound == Init /\ [][NextSound]_vars

\* the playback position, with tracks dropped and selected
NextSeek ==
    \/ \E delta \in {-SeekStep, SeekStep} : Seek(delta)
    \/ \E t \in SliderTimes : SeekTo(t)
    \/ LoadedMetadata
    \/ TimeUpdate
    \/ \E files \in Batches : HandleDrop(files)
    \/ \E index \in 0..(Len(tracks) - 1) : SelectTrack(index)

SpecSeek == Init /\ [][NextSeek]_vars

\* the audio graph and the element in use, with tracks dropped and stepped through
NextGraph ==
    \/ SetupAudioGraph
    \/ \E files \in Batches : HandleDrop(files)
    \/ \E index \in 0..(Len(tracks) - 1) : SelectTrack(index)
    \/ NextTrack
    \/ PrevTrack

SpecGraph == Init /\ [][NextGraph]_vars

\* the Visualizer's frame loop, with tracks dropped, selected, toggled and removed
NextViz ==
    \/ AnimationFrame
    \/ \E files \in Batches : HandleDrop(files)
    \/ \E index \in 0..(Len(tracks) - 1) : SelectTrack(index)
    \/ \E id \in 1..MaxIds : RemoveTrack(id)
    \/ TogglePlay
    \/ ResumeResolved
    \/ ResumeRejected

SpecViz == Init /\ [][NextViz]_vars

\* ---------------------------------------------------------------- claims
ActiveTrack == CurrentTrack(tracks, currentTrackIndex)
ListedIds == {tracks[i].id : i \in 1..Len(tracks)}
CreatedIds == 1..(nextId - 1)

\* C1: after any ingestions and removals, -1 <= activeIndex < playlist.length.
C1_IndexInRange ==
    -1 <= currentTrackIndex /\ currentTrackIndex < Len(tracks)

\* C2: isPlaying holds only while activeIndex designates a playlist entry and the
\* media element has neither ended nor failed.
C2_PlayingMeansLiveTrack ==
    isPlaying => ActiveTrack.id # 0 /\ media.state \notin {"ended", "error"}

\* C3: a track's blob url is released exactly once, when the track is removed, and
\* not while the element still plays it: the urls of removed tracks are revoked, the
\* urls of listed tracks and of the resource being played are not.
C3_HandleReleasedAtRemoval ==
    /\ \A id \in CreatedIds \ ListedIds : id \in revokedURLs /\ id \notin liveURLs
    /\ \A id \in ListedIds : id \in liveURLs /\ id \notin revokedURLs
    /\ media.state = "playing" => media.res \notin revokedURLs

\* C4: removing the active track leaves isPlaying = false and activeIndex = -1,
\* whatever the playlist length and whether it was playing or paused.
C4_RemoveActiveStops ==
    (last.op = "removeTrack" /\ last.arg = last.c.idx)
        => (~isPlaying /\ currentTrackIndex = -1)

\* C4 witness: the active track was removed while playing and another track is left.
C4_Witness ==
    /\ last.op = "removeTrack"
    /\ last.arg = last.c.idx
    /\ last.c.isPlaying
    /\ Len(tracks) >= 1
    /\ ~isPlaying
    /\ currentTrackIndex = -1

\* C5: the view mode is Cinema or Fullscreen only while OS fullscreen is active.
C5_ModeNeedsOsFullscreen ==
    Mode \in {"Cinema", "Fullscreen"} => osFullscreen

\* C6: after a rejected fullscreen request the view mode and controlsVisible are
\* what they were before the request was made.
C6_DeniedLeavesView ==
    last.op = "fullscreenDenied"
        => (Mode = last.v.mode /\ showControls = last.v.controls)

\* C7: in Normal mode the controls are visible and no auto-hide timer is pending.
C7_NormalShowsControls ==
    Mode = "Normal" => (showControls /\ controlsTimers = 0)

\* C8: from Normal with OS fullscreen inactive the first cinema toggle makes one
\* fullscreen request and sets Cinema with the controls hidden; the second cinema
\* toggle returns to Normal and makes one exit call, whenever it comes.
C8_CinemaTwice ==
    last.op = "toggleVideoOnly" =>
        /\ cinemaToggles = 1 =>
              (Mode = "Cinema" /\ ~showControls /\ last.os = <<"request">>)
        /\ cinemaToggles = 2 =>
              (Mode = "Normal" /\ last.os = <<"exit">>)

\* C9 as stated: a fullscreenchange notification forces Normal when OS fullscreen is
\* now inactive and leaves the mode tag unchanged when it is now active.
C9_ChangeKeepsTagWhenActive ==
    last.op = "fullscreenchange" =>
        IF osFullscreen THEN Mode = last.v.mode ELSE Mode = "Normal"

\* C9 as amended: a fullscreenchange notification forces Normal when OS fullscreen is
\* now inactive; when it is now active a Cinema or Fullscreen tag is left unchanged
\* and a Normal tag becomes Fullscreen.
C9_ChangeFollowsOs ==
    last.op = "fullscreenchange" =>
        IF osFullscreen
        THEN Mode = (IF last.v.mode = "Normal" THEN "Fullscreen" ELSE last.v.mode)
        ELSE Mode = "Normal"

\* C9 witness: the notification found OS fullscreen active while the mode was Normal.
C9_Witness ==
    /\ last.op = "fullscreenchange"
    /\ osFullscreen
    /\ last.v.mode = "Normal"
    /\ Mode = "Fullscreen"

\* C10: togglePlay called from Stopped (activeIndex = -1) with a non-empty playlist
\* selects index 0, sets isPlaying and issues play; from Paused it sets isPlaying and
\* issues play; from Playing it clears isPlaying and issues pause; with an empty
\* playlist it changes nothing and issues no command.  The state a call is made from
\* is the isPlaying / currentTrackIndex of the render the callback was created in.
C10_TogglePlay ==
    /\ last.op = "togglePlay" =>
          /\ last.c.idx = -1 => (currentTrackIndex = 0 /\ isPlaying /\ IssuedPlay)
          /\ (last.c.idx >= 0 /\ ~last.c.isPlaying) => (isPlaying /\ IssuedPlay)
          /\ (last.c.idx >= 0 /\ last.c.isPlaying) => (~isPlaying /\ IssuedPause)
    /\ last.op = "togglePlayNoTracks" =>
          /\ tracks = <<>>
          /\ Closure = last.c
          /\ last.media = <<>>

\* C11: when the play command issued by togglePlay fails, the failure is caught and
\* the controller reverts to Paused (isPlaying = false).
C11_PlayFailureReverts ==
    (last.op = "playRejected" /\ last.arg = 1) => ~isPlaying

\* C12: with the audio context suspended togglePlay issues no transport command
\* before the resume has completed; when the resume fails no command is issued,
\* isPlaying and activeIndex stay as they are and no rejection is left unhandled.
C12_ResumeFirstOrAbort ==
    /\ last.op = "togglePlayAwait" => (last.media = <<>> /\ Closure = last.c)
    /\ last.op = "togglePlay" => ctxState = "running"
    /\ last.op = "resumeRejected" =>
          (last.media = <<>> /\ Closure = last.c /\ last.arg = 0)

\* C13: selectTrack(index) sets activeIndex = index and isPlaying = true and issues a
\* play command for that track, whatever the state before.
C13_SelectPlays ==
    last.op = "selectTrack" =>
        /\ currentTrackIndex = last.arg
        /\ isPlaying
        /\ \E i \in 1..Len(last.media) :
              last.media[i] = [cmd |-> "play", res |-> ActiveTrack.id]

\* C14: when the active track (index i of n >= 1) ends, activeIndex becomes
\* (i+1) mod n and playback goes on (isPlaying, the element playing), for n = 1 as
\* well; next / previous move the index circularly and do nothing on an empty list.
C14_EndedAdvancesAndPlays ==
    /\ (last.op = "onEnded" /\ last.c.idx >= 0 /\ Len(tracks) >= 1) =>
          /\ currentTrackIndex = (last.c.idx + 1) % Len(tracks)
          /\ isPlaying
          /\ media.state = "playing"
    /\ (last.op = "nextTrack" /\ Len(tracks) >= 1) =>
          currentTrackIndex = (last.c.idx + 1) % Len(tracks)
    /\ (last.op = "prevTrack" /\ Len(tracks) >= 1) =>
          currentTrackIndex = (last.c.idx - 1 + Len(tracks)) % Len(tracks)
    /\ (last.op \in {"nextTrack", "prevTrack"} /\ Len(tracks) = 0) =>
          (Closure = last.c /\ last.media = <<>>)

\* C15: removeTrack(id) of a track that is not the active one leaves the same track
\* active and isPlaying as it was; with an id no track has it changes nothing.
C15_RemoveOtherKeepsActive ==
    (last.op = "removeTrack" /\ last.arg # last.c.idx) =>
        /\ ActiveTrack.id = last.id
        /\ isPlaying = last.c.isPlaying
        /\ last.arg = -1 => currentTrackIndex = last.c.idx

\* the tracks a batch must append: the audio and video files, in input order
ExpectedTypes(files) == SelectSeq(files, LAMBDA f : f[1] \in {"audio", "video"})

AppendsExpected(files) ==
    LET want == ExpectedTypes(files)
    IN  /\ Len(tracks') = Len(tracks) + Len(want)
        /\ \A i \in 1..Len(tracks) : tracks'[i] = tracks[i]
        /\ \A i \in 1..Len(want) : tracks'[Len(tracks) + i].type = want[i][1]
        /\ currentTrackIndex' =
              (IF Len(tracks) = 0 /\ Len(want) > 0 THEN 0 ELSE currentTrackIndex)
        /\ isPlaying' = isPlaying

\* C16: the picker and the drop both append exactly the audio/video files in input
\* order, set activeIndex to 0 only when the list was empty and a file was accepted,
\* leave it otherwise, and never change isPlaying.
C16_AddTracks ==
    [][\A files \in Batches :
          (HandleFileChange(files) \/ HandleDrop(files)) => AppendsExpected(files)]_vars

\* C17: after any adjustVolume the volume lies in [0, 1]; a +0.05 step from 0.95 or
\* more gives exactly 1 and a -0.05 step from 0.05 or less gives exactly 0.
C17_VolumeClamped ==
    /\ 0 <= volume /\ volume <= FullVolume
    /\ last.op = "adjustVolume" =>
          /\ (last.arg > 0 /\ last.num + last.arg >= FullVolume) => volume = FullVolume
          /\ (last.arg < 0 /\ last.num + last.arg <= 0) => volume = 0

\* an upward step taken from above 0.95 ended at exactly 1
C17_Witness ==
    /\ last.op = "adjustVolume"
    /\ last.arg = VolumeStep
    /\ last.num > FullVolume - VolumeStep
    /\ last.num < FullVolume
    /\ volume = FullVolume

\* C19: toggleMute flips isMuted and leaves volume as it is; in every state the
\* volume of the media element in use is 0 when muted and volume otherwise.
C19_OutputVolume ==
    /\ last.op = "toggleMute" => (isMuted = (last.arg = 0) /\ volume = last.num)
    /\ media.vol = (IF isMuted THEN 0 ELSE volume)

\* C20: after a volume change by the slider or by adjustVolume isMuted is false and
\* the overlay is visible with the new volume; a visible overlay shows the volume.
C20_VolumeChangeShowsOverlay ==
    /\ last.op \in {"setVolume", "adjustVolume"} =>
          /\ ~isMuted
          /\ volumeIndicator = [value |-> volume, visible |-> TRUE]
    /\ volumeIndicator.visible => volumeIndicator.value = volume

\* C18: after every seek (arrow keys, progress slider) the position, in the
\* controller and in the element, lies in [0, duration of the active track], also
\* after a switch of track, and isPlaying is as it was.
C18_SeekWithinTrack ==
    (last.op \in {"seek", "seekTo"} /\ ActiveTrack.id # 0) =>
        /\ 0 <= currentTime /\ currentTime <= TrackDuration(ActiveTrack.id)
        /\ 0 <= media.time /\ media.time <= TrackDuration(ActiveTrack.id)
        /\ isPlaying = last.c.isPlaying

\* C21: at most one audio graph is ever created, and after any switches of track
\* the media element in use is the element the graph's source node was made from.
C21_GraphSingleton ==
    /\ audioContexts <= 1
    /\ media.node

\* C22: the rest of a togglePlay that waited for resume() acts on the state at its
\* completion: it flips the isPlaying of that moment, pausing when it was playing
\* and playing when it was not.
C22_CompletionUsesCurrentState ==
    (last.op = "togglePlay" /\ last.arg = 1 /\ Len(tracks) >= 1) =>
        /\ isPlaying = (last.num = 0)
        /\ last.num = 1 => (IssuedPause /\ ~IssuedPlay)
        /\ last.num = 0 => (IssuedPlay /\ ~IssuedPause)

\* C24: each timer has at most one pending instance, and the overlay's timeout never
\* fires while a volume change newer than its arming is less than 1 s old.
C24_SingleSlotTimers ==
    /\ controlsTimers <= 1
    /\ last.op = "volumeTimeout" => last.arg = 0

\* C25: when a handler makes another track the active one, currentTime and duration
\* are 0 afterwards.
C25_TrackChangeResetsPosition ==
    (/\ last.op \in {"selectTrack", "nextTrack", "prevTrack", "onEnded", "handleDrop",
                     "handleFileChange", "removeTrack"}
     /\ ActiveTrack.id # last.id) =>
        (currentTime = 0 /\ duration = 0)

\* C23: at most one frame callback is pending, and none while isPlaying is false,
\* the active track is not audio or the Visualizer is unmounted; a commit that stops
\* the loop cancels the pending callback and clears the canvas exactly once, and
\* the canvas stays clear while the loop is stopped.
C23_FrameLoop ==
    /\ viz.pending <= 1
    /\ (~isPlaying \/ ActiveTrack.type # "audio" \/ ~viz.mounted) => viz.pending = 0
    /\ viz.event = "stop" => (viz.clears = 1 /\ viz.pending = 0)
    /\ (viz.mounted /\ ~viz.running) => viz.canvas = "clear"

\* a loop that was running was stopped in place by the handler that ran last
C23_Witness ==
    /\ viz.event = "stop"
    /\ viz.mounted
    /\ viz.canvas = "clear"
    /\ ~isPlaying
    /\ last.c.isPlaying

====
